---- MODULE Spec2Model ----
(***************************************************************************)
(* The monitor-detect-reconfigure control loop of the 5G slicing lab:      *)
(* MonitoringAgent and ConfigurationAgent (agentic-llm/agents.py) and the  *)
(* reconfigure_network tool (agentic-llm/tools.py).                        *)
(*                                                                         *)
(* Strings that the code parses or compares after a conversion (UE ids,    *)
(* the oracle's answer, the tool's return value, the configuration values) *)
(* are sequences of one-character strings, so that strip, replace, split   *)
(* and str(list) are computed as Python computes them.  Loss percentages   *)
(* are integers in tenths of a percent (15 is 1.5%).  Time is in seconds.  *)
(***************************************************************************)
EXTENDS Integers, Sequences, FiniteSets, Bags, TLC

VARIABLES
    pc,         \* position of the single control thread
    state,      \* the LangGraph State dict: a function from the keys present to their values
    table,      \* the iperf3 telemetry table: a bag of [ue, ts, loss] rows (append-only)
    now,        \* wall clock, seconds
    polled,     \* what the last iteration of MonitoringAgent's loop logged
    result_df,  \* MonitoringAgent's local result_df: the rows of the last query
    warned,     \* the UE named in the "multiple UEs" warning of the last detection pass
    cleaned,    \* ConfigurationAgent's local cleaned_content0
    toolIn,     \* reconfigure_network's parameters UE, value_1_old, value_2_old
    cmds,       \* invocations of the external script made by the request in flight
    toolOut,    \* the tool's return value (content of the ToolMessage)
    asked,      \* the last consent prompt: <<>> or <<answer, count it was issued at>>
    nat,        \* the NAT deployment of register.py: its configuration and the last error raised
    last        \* the tool call before the one at hand, as the log shows it, if it applied a configuration

vars == <<pc, state, table, now, polled, result_df, warned, cleaned, toolIn, cmds, toolOut, asked, nat, last>>

----------------------------------------------------------------------------
(* Bounds of the model *)

MaxSamples == 2
MaxTime == 30
MaxCount == 3
\* config_file['interrupt_after'] (config.yaml is not part of the sources)
interrupt_after == 2

(* Program constants *)

\* PACKET_LOSS_THRESHOLD = 1.5 (percent), in tenths of a percent
PACKET_LOSS_THRESHOLD == 15
\* CHECK_INTERVAL = 10 seconds
CHECK_INTERVAL == 10
\* WHERE timestamp > NOW() - INTERVAL '30' SECOND
WINDOW_SECONDS == 30
\* time.sleep(10) after both script runs
SETTLE_DELAY == 10

----------------------------------------------------------------------------
(* String literals *)

S_UE1 == <<"U", "E", "1">>
S_UE2 == <<"U", "E", "2">>
S_UE3 == <<"U", "E", "3">>
S_20 == <<"2", "0">>
S_50 == <<"5", "0">>
S_80 == <<"8", "0">>
MSG_FAILED ==
    <<"R","e","c","o","n","f","i","g","u","r","a","t","i","o","n"," ",
      "u","n","s","u","c","c","e","s","s","f","u","l">>
MSG_TIMEOUT == MSG_FAILED \o <<" ", "-", " ", "t", "i", "m", "e", "o", "u", "t">>

Whitespace == {" ", "\n", "\t"}
Digits == {"0", "1", "2", "3", "4", "5", "6", "7", "8", "9"}

(* The entities the traffic generators write to the table *)
UEs == {S_UE1, S_UE2}
(* Loss percentages of the samples, in tenths of a percent *)
Losses == {15, 20, 30}
(* Answers of the LLM to the confirmation prompt *)
OracleAnswers ==
    UEs \cup {S_UE3, S_UE1 \o <<"\n">>, <<" ">> \o S_UE2, <<"n", "o", "n", "e">>}
(* What the operator may type at input() *)
OperatorAnswers == {"yes", "no", ""}
(* Outcomes of one subprocess.run of the script under tools.py *)
RunOutcomes == {"ok", "nonzero", "timeout"}

----------------------------------------------------------------------------
(* Python string operations *)

RECURSIVE LStrip(_, _)
LStrip(s, cs) ==
    IF s # <<>> /\ Head(s) \in cs THEN LStrip(Tail(s), cs) ELSE s

RECURSIVE RStrip(_, _)
RStrip(s, cs) ==
    IF s # <<>> /\ s[Len(s)] \in cs THEN RStrip(SubSeq(s, 1, Len(s) - 1), cs) ELSE s

\* str.strip(chars)
StripChars(s, cs) == RStrip(LStrip(s, cs), cs)

\* str.strip()
Strip(s) == StripChars(s, Whitespace)

\* str.replace(c, "") for a one-character c
RemoveChar(s, c) == SelectSeq(s, LAMBDA x : x # c)

StartsWith(s, p) == Len(s) >= Len(p) /\ SubSeq(s, 1, Len(p)) = p

\* the positions at which sep occurs in s
Occurrences(s, sep) ==
    { i \in 1..Len(s) : StartsWith(SubSeq(s, i, Len(s)), sep) }

\* str.split(sep): the list of the pieces between the occurrences of sep,
\* found from the left; cur holds the pieces already cut off
RECURSIVE SplitFrom(_, _, _)
SplitFrom(s, sep, cur) ==
    IF Occurrences(s, sep) = {} THEN Append(cur, s)
    ELSE LET i == CHOOSE j \in Occurrences(s, sep) :
                      \A k \in Occurrences(s, sep) : j <= k
         IN SplitFrom(SubSeq(s, i + Len(sep), Len(s)), sep,
                      Append(cur, SubSeq(s, 1, i - 1)))

\* (the string is bound to its value before it is cut)
Split(s, sep) == CHOOSE r \in { SplitFrom(x, sep, <<>>) : x \in {s} } : TRUE

\* str(list of str): "['a', 'b']"
RECURSIVE JoinRepr(_)
JoinRepr(l) ==
    IF l = <<>> THEN <<>>
    ELSE <<"'">> \o Head(l) \o <<"'">>
         \o (IF Len(l) > 1 THEN <<",", " ">> ELSE <<>>) \o JoinRepr(Tail(l))

PyStrList(l) == <<"[">> \o JoinRepr(l) \o <<"]">>

----------------------------------------------------------------------------
(* The State dict and LangGraph's merge of a node's return value into it *)

Get(d, k, default) == IF k \in DOMAIN d THEN d[k] ELSE default

\* Keys returned by a node replace the old values; "messages" has the
\* add_messages reducer of MessagesState, which appends.
Merge(update, d) ==
    [k \in DOMAIN update \cup DOMAIN d |->
        IF k = "messages" /\ k \in DOMAIN update
        THEN Get(d, "messages", <<>>) \o update[k]
        ELSE IF k \in DOMAIN update THEN update[k] ELSE d[k]]

----------------------------------------------------------------------------
(* The aggregation query of MonitoringAgent *)

Max2(a, b) == IF a >= b THEN a ELSE b

\* (mutant) the window bound taken inclusively
InWindowInclusive(r, t) == r.ts >= t - WINDOW_SECONDS

\* WHERE timestamp > NOW() - INTERVAL '30' SECOND
InWindow(r, t) == r.ts > t - WINDOW_SECONDS

\* the distinct rows of one ue in the window
Matching(tbl, u, t) == { r \in BagToSet(tbl) : r.ue = u /\ InWindow(r, t) }

\* SUM, MAX and COUNT(*) over a set of distinct rows, each counted as often as
\* the table holds it
RECURSIVE Aggregate(_, _)
Aggregate(rows, tbl) ==
    IF rows = {} THEN [sum |-> 0, max |-> 0, n |-> 0]
    ELSE LET r == CHOOSE x \in rows : TRUE
             rest == Aggregate(rows \ {r}, tbl)
         IN [sum |-> rest.sum + r.loss * CopiesIn(r, tbl),
             max |-> Max2(rest.max, r.loss),
             n |-> rest.n + CopiesIn(r, tbl)]

\* SELECT ue, AVG(..), MAX(..), COUNT(*) ... GROUP BY ue: one row per ue that has
\* a row in the window.  AVG is kept as the exact fraction num/den.
GroupRow(tbl, u, t) ==
    LET a == Aggregate(Matching(tbl, u, t), tbl)
    IN [ue |-> u,
        avg_loss |-> [num |-> a.sum, den |-> a.n],
        max_loss |-> a.max,
        samples |-> a.n]

QueryRows(tbl, t) ==
    { GroupRow(tbl, u, t) : u \in { r.ue : r \in { x \in BagToSet(tbl) : InWindow(x, t) } } }

\* GROUP BY fixes no order of the result rows: result_df is any ordering of them
Orderings(S) ==
    { f \in [1..Cardinality(S) -> S] : \A i, j \in 1..Cardinality(S) : f[i] = f[j] => i = j }

\* (mutant) the threshold compared with >=
IsHighLossInclusive(r) == r.max_loss >= PACKET_LOSS_THRESHOLD

\* result_df[result_df['max_loss'] > PACKET_LOSS_THRESHOLD]
IsHighLoss(r) == r.max_loss > PACKET_LOSS_THRESHOLD

\* (mutant) the rows not filtered by the threshold
HighLossUnfiltered(df) == df

HighLoss(df) == SelectSeq(df, IsHighLoss)

\* high_loss_ues.sort_values('max_loss', ascending=False) sorts with the
\* default kind 'quicksort', which is not a stable sort: the rows come out
\* in descending order of max_loss, rows of equal max_loss in any order
IsSortedDesc(s) ==
    \A i, j \in 1..Len(s) : i < j => s[i].max_loss >= s[j].max_loss

\* (mutant) the rows left in the order of the query result
SortSkipped(s) == {s}

sort_values(s) ==
    { t \in Orderings({ s[i] : i \in 1..Len(s) }) : IsSortedDesc(t) }

\* trigger_data, read from row 0 of the sorted rows
TriggerData(sorted) ==
    [ue |-> sorted[1].ue,
     avg_loss |-> sorted[1].avg_loss,
     max_loss |-> sorted[1].max_loss,
     samples |-> sorted[1].samples]

\* (mutant) the rows below the top one kept in the state
MonitoringReturnQueued(st, sorted) ==
    [messages |-> <<"Monitoring">>,
     start |-> Get(st, "start", 0),
     files |-> [metrics |-> TriggerData(sorted), queued |-> Tail(sorted)],
     config_value |-> Get(st, "config_value", <<S_50, S_50>>),
     count |-> Get(st, "count", 0),
     consent |-> Get(st, "consent", "yes")]

\* (mutant) the defaults returned whatever the state holds
MonitoringReturnDefaults(st, sorted) ==
    [messages |-> <<"Monitoring">>,
     start |-> Get(st, "start", 0),
     files |-> [metrics |-> TriggerData(sorted)],
     config_value |-> <<S_50, S_50>>,
     count |-> 0,
     consent |-> "yes"]

\* the dict MonitoringAgent returns
MonitoringReturn(st, sorted) ==
    [messages |-> <<"Monitoring">>,
     start |-> Get(st, "start", 0),
     files |-> [metrics |-> TriggerData(sorted)],
     config_value |-> Get(st, "config_value", <<S_50, S_50>>),
     count |-> Get(st, "count", 0),
     consent |-> Get(st, "consent", "yes")]

----------------------------------------------------------------------------
(* guardrails.OutputValidator *)

(* Python values of the types the rules look at, tagged with their type *)
NoneValue == [type |-> "none"]
Num(n) == [type |-> "num", value |-> n]
Str(s) == [type |-> "str", value |-> s]
\* a dict, as the function from its keys to its values
Dict(f) == [type |-> "dict", value |-> f]

\* GuardrailRule; an unset field is "", an unset bound is None.  A pattern
\* is a literal text, which re.match looks for at the start of the output.
Rule(name, rule_type, field, pattern, allowed_values, min_value, max_value) ==
    [name |-> name, rule_type |-> rule_type, field |-> field, pattern |-> pattern,
     allowed_values |-> allowed_values, min_value |-> min_value, max_value |-> max_value]

\* output.get(rule.field) if isinstance(output, dict) else getattr(output, rule.field, None)
FieldValue(output, field) ==
    IF output.type = "dict" /\ field \in DOMAIN output.value
    THEN output.value[field]
    ELSE NoneValue

\* field_value < bound, field_value > bound: TypeError unless field_value is a number
RangeCheck(field_value, rule) ==
    IF rule.min_value # NoneValue /\ field_value.type # "num" THEN "error"
    ELSE IF rule.min_value # NoneValue /\ field_value.value < rule.min_value.value THEN "false"
    ELSE IF rule.max_value # NoneValue /\ field_value.type # "num" THEN "error"
    ELSE IF rule.max_value # NoneValue /\ field_value.value > rule.max_value.value THEN "false"
    ELSE "true"

\* OutputValidator._apply_rule: "true", "false", or "error" when it raises
apply_rule(output, rule) ==
    CASE rule.rule_type = "pattern" ->
            IF output.type = "str" /\ StartsWith(output.value, rule.pattern)
            THEN "true" ELSE "false"
      [] rule.rule_type = "enum" ->
            LET v == IF rule.field # "" THEN FieldValue(output, rule.field) ELSE output
            IN IF v.type = "str" /\ v \in rule.allowed_values THEN "true" ELSE "false"
      [] rule.rule_type = "range" ->
            RangeCheck(IF rule.field # "" THEN FieldValue(output, rule.field) ELSE output,
                       rule)
      [] OTHER -> "true"

\* the loop over self.rules and what follows it: "True", "False", "ValueError"
\* (raise ValueError(message)) or "Error" (the exception of a rule, raised again)
RECURSIVE ApplyRules(_, _, _, _)
ApplyRules(mode, rules, output, violations) ==
    IF rules = <<>>
    THEN IF violations = <<>> THEN "True"
         ELSE IF mode = "strict" THEN "ValueError" ELSE "False"
    ELSE IF apply_rule(output, Head(rules)) = "error"
         THEN IF mode = "strict" THEN "Error"
              ELSE ApplyRules(mode, Tail(rules), output, violations)
    ELSE IF apply_rule(output, Head(rules)) = "false"
         THEN ApplyRules(mode, Tail(rules), output, Append(violations, Head(rules).name))
    ELSE ApplyRules(mode, Tail(rules), output, violations)

\* (mutant) strict mode handled like warning mode
validate_outputLenient(mode, rules, output) ==
    IF mode = "disabled" THEN "True" ELSE ApplyRules("warning", rules, output, <<>>)

\* OutputValidator.validate_output
validate_output(mode, rules, output) ==
    IF mode = "disabled" THEN "True" ELSE ApplyRules(mode, rules, output, <<>>)

(* Rules and outputs *)

\* the output starts with "['80'"
R_TARGET ==
    Rule("target", "pattern", "", <<"[", "'", "8", "0", "'">>, {}, NoneValue, NoneValue)
\* the output is one of the two target lists
R_KNOWN ==
    Rule("known", "enum", "", <<>>,
         {Str(PyStrList(<<S_80, S_20>>)), Str(PyStrList(<<S_20, S_80>>))},
         NoneValue, NoneValue)
\* the field "loss" of the output lies in [0, 100]
R_LOSS == Rule("loss", "range", "loss", <<>>, {}, Num(0), Num(100))
\* the output itself lies in [0, 100]
R_PERCENT == Rule("percent", "range", "", <<>>, {}, Num(0), Num(100))
\* a rule of a type _apply_rule knows nothing of
R_CUSTOM == Rule("custom", "custom", "", <<>>, {}, NoneValue, NoneValue)

Rules == {R_TARGET, R_KNOWN, R_LOSS, R_PERCENT, R_CUSTOM}

MaxRules == 2

\* self.rules: the lists of at most MaxRules rules
RuleLists == UNION { [1..n -> Rules] : n \in 0..MaxRules }

Outputs ==
    {Str(PyStrList(<<S_80, S_20>>)), Str(PyStrList(<<S_20, S_80>>)), Str(MSG_FAILED),
     Num(50), Num(150),
     Dict([k \in {"loss"} |-> Num(50)]), Dict([k \in {"loss"} |-> Num(150)]),
     Dict([k \in {} |-> NoneValue])}

\* the rules of the validator of the NAT deployment: none (as register.py
\* builds it), or one added with add_rule
NatRuleSets == {<<>>, <<R_TARGET>>, <<R_PERCENT>>}

----------------------------------------------------------------------------
(* The initial state: the graph starts in MonitoringAgent with no key set *)

NoLocals ==
    /\ polled = "none"
    /\ result_df = <<>>
    /\ warned = <<>>
    /\ cleaned = <<>>
    /\ toolIn = <<>>
    /\ cmds = <<>>
    /\ toolOut = <<>>

(* Either the LangGraph loop of agents.py runs (with the tool of tools.py), *)
(* or the function group of register.py is deployed and serves requests:   *)
(* without guardrails (no validator is built, the validation mode is not   *)
(* read), or with the two validators and a validation mode.                *)

NatOff ==
    [deployed |-> FALSE, guardrails |-> FALSE, mode |-> "disabled", rules |-> <<>>,
     raised |-> "none", issues |-> <<>>, checked |-> NoneValue,
     validated |-> "none"]

ValidationModes == {"strict", "warning", "disabled"}

Init ==
    /\ state = <<>>
    /\ table = EmptyBag
    /\ now = 0
    /\ asked = <<>>
    /\ last = <<>>
    /\ NoLocals
    /\ \/ pc = "Monitoring" /\ nat = NatOff
       \/ /\ pc = "Nat_idle"
          /\ \/ nat = [NatOff EXCEPT !.deployed = TRUE]
             \/ \E m \in ValidationModes, rs \in NatRuleSets :
                   nat = [NatOff EXCEPT !.deployed = TRUE, !.guardrails = TRUE,
                                        !.mode = m, !.rules = rs]

confVars == <<cleaned, toolIn, cmds, toolOut, asked, nat, last>>

----------------------------------------------------------------------------
(* The traffic generator inserts a sample; the table stamps it with NOW *)

InsertSample(u, l) ==
    /\ ~nat.deployed
    /\ BagCardinality(table) < MaxSamples
    /\ table' = table (+) SetToBag({[ue |-> u, ts |-> now, loss |-> l]})
    /\ UNCHANGED <<pc, state, now, polled, result_df, warned, confVars>>

----------------------------------------------------------------------------
(* MonitoringAgent: one iteration of its while loop *)

\* time.sleep(CHECK_INTERVAL), then the next iteration; the model follows the
\* loop up to the time MaxTime
Sleep ==
    IF now + CHECK_INTERVAL <= MaxTime
    THEN now' = now + CHECK_INTERVAL /\ pc' = "Monitoring"
    ELSE now' = now /\ pc' = "Horizon"

\* IPERF3_RANDOM_TABLE_NAME is not set
PollNoTable ==
    /\ pc = "Monitoring"
    /\ polled' = "no_table"
    /\ Sleep
    /\ UNCHANGED <<state, table, result_df, warned, confVars>>

\* (mutant) the exception of the query not caught
PollErrorFatal ==
    /\ pc = "Monitoring"
    /\ polled' = "error"
    /\ pc' = "crashed"
    /\ UNCHANGED <<state, table, now, result_df, warned, confVars>>

\* kdbc.to_df raises: the except clause logs and sleeps
PollError ==
    /\ pc = "Monitoring"
    /\ polled' = "error"
    /\ Sleep
    /\ UNCHANGED <<state, table, result_df, warned, confVars>>

\* the query returns no rows
PollEmpty ==
    /\ pc = "Monitoring"
    /\ QueryRows(table, now) = {}
    /\ polled' = "no_data"
    /\ Sleep
    /\ UNCHANGED <<state, table, result_df, warned, confVars>>

\* rows, none over the threshold
PollNormal ==
    /\ pc = "Monitoring"
    /\ \E df \in Orderings(QueryRows(table, now)) :
        /\ df # <<>>
        /\ HighLoss(df) = <<>>
    /\ polled' = "normal"
    /\ Sleep
    /\ UNCHANGED <<state, table, result_df, warned, confVars>>

\* the UE the warning names: high_loss_ues.iloc[0] before the sort
WarnedUE(high) == IF Len(high) > 1 THEN high[1].ue ELSE <<>>

\* rows over the threshold: MonitoringAgent returns
PollDetect ==
    /\ pc = "Monitoring"
    /\ Get(state, "count", 0) < MaxCount
    /\ \E df \in Orderings(QueryRows(table, now)) :
        /\ HighLoss(df) # <<>>
        /\ result_df' = df
        /\ warned' = WarnedUE(HighLoss(df))
        /\ \E sorted \in sort_values(HighLoss(df)) :
              state' = Merge(MonitoringReturn(state, sorted), state)
    /\ polled' = "high_loss"
    /\ pc' = "Conf_confirm"
    /\ UNCHANGED <<table, now, confVars>>

----------------------------------------------------------------------------
(* ConfigurationAgent *)

\* the validation of the AI's confirmation (agents.py, "if cleaned_content0.strip() != detected_ue")
Confirmed(answer, detected_ue) ==
    IF Strip(answer) # detected_ue THEN detected_ue ELSE answer

\* Step 1, and the construction of prompt_1, which reads config_value[0] and
\* config_value[1]: a list shorter than two raises IndexError.  The react agent
\* then calls reconfigure_network with the inputs the prompt names.
\* config_agent.invoke of Step 1 may also raise (the call of the LLM fails):
\* no try statement surrounds it, and the exception leaves ConfigurationAgent
\* before cleaned_content0 is assigned.
ConfConfirm ==
    /\ pc = "Conf_confirm"
    /\ \/ /\ \E answer \in OracleAnswers :
                cleaned' = Confirmed(answer, state["files"].metrics.ue)
          /\ IF Len(state["config_value"]) < 2
             THEN /\ pc' = "crashed"
                  /\ UNCHANGED toolIn
             ELSE /\ pc' = "Tool_reset"
                  /\ toolIn' = [UE |-> cleaned',
                                value_1_old |-> state["config_value"][1],
                                value_2_old |-> state["config_value"][2]]
       \/ /\ pc' = "crashed"
          /\ UNCHANGED <<cleaned, toolIn>>
    /\ polled' = "none"
    /\ result_df' = <<>>
    /\ warned' = <<>>
    /\ UNCHANGED <<state, table, now, cmds, toolOut, asked, nat, last>>

----------------------------------------------------------------------------
(* tools.reconfigure_network *)

args_1 == <<S_20, S_20>>

\* (mutant) the two branches exchanged
args_2Swapped(in) == IF in.UE = S_UE1 THEN <<S_20, S_80>> ELSE <<S_80, S_20>>

\* (mutant) the old split exchanged when it is not the default one
args_2FromOld(in) ==
    IF in.value_1_old = S_50
    THEN (IF in.UE = S_UE1 THEN <<S_80, S_20>> ELSE <<S_20, S_80>>)
    ELSE <<in.value_2_old, in.value_1_old>>

\* if UE == "UE1": args_2 = ["80","20"] else: args_2 = ["20","80"]
args_2(in) == IF in.UE = S_UE1 THEN <<S_80, S_20>> ELSE <<S_20, S_80>>

\* the return value of the except clauses
FailureReturn(outcome) == IF outcome = "timeout" THEN MSG_TIMEOUT ELSE MSG_FAILED

\* subprocess.run([script_path] + args, check=True, timeout=30)
RunScript(args, outcome) == cmds' = Append(cmds, [args |-> args, outcome |-> outcome])

\* (mutant) the reset run without check=True: its outcome is ignored
ToolResetUnchecked ==
    /\ pc = "Tool_reset"
    /\ \E outcome \in RunOutcomes : RunScript(args_1, outcome)
    /\ pc' = "Tool_target"
    /\ UNCHANGED <<state, table, now, polled, result_df, warned, cleaned, toolIn, toolOut, asked, nat, last>>

\* (mutant) the reset run started without waiting for it (Popen)
ToolResetDetached ==
    /\ pc = "Tool_reset"
    /\ RunScript(args_1, "ok")
    /\ pc' = "Monitoring"
    /\ UNCHANGED <<state, table, now, polled, result_df, warned, cleaned, toolIn, toolOut, asked, nat, last>>

ToolReset ==
    /\ pc = "Tool_reset"
    /\ \E outcome \in RunOutcomes :
        /\ RunScript(args_1, outcome)
        /\ IF outcome = "ok"
           THEN pc' = "Tool_target" /\ UNCHANGED toolOut
           ELSE pc' = "Conf_finish" /\ toolOut' = FailureReturn(outcome)
    /\ UNCHANGED <<state, table, now, polled, result_df, warned, cleaned, toolIn, asked, nat, last>>

ToolTarget ==
    /\ pc = "Tool_target"
    /\ \E outcome \in RunOutcomes :
        /\ RunScript(args_2(toolIn), outcome)
        /\ IF outcome = "ok"
           THEN pc' = "Tool_settle" /\ UNCHANGED toolOut
           ELSE pc' = "Conf_finish" /\ toolOut' = FailureReturn(outcome)
    /\ UNCHANGED <<state, table, now, polled, result_df, warned, cleaned, toolIn, asked, nat, last>>

\* (mutant) the new configuration returned without the wait
ToolSettleNoWait ==
    /\ pc = "Tool_settle"
    /\ toolOut' = PyStrList(args_2(toolIn))
    /\ pc' = "Conf_finish"
    /\ UNCHANGED <<state, table, now, polled, result_df, warned, cleaned, toolIn, cmds, asked, nat, last>>

\* time.sleep(10); return str(args_2)
ToolSettle ==
    /\ pc = "Tool_settle"
    /\ IF now + SETTLE_DELAY <= MaxTime
       THEN /\ now' = now + SETTLE_DELAY
            /\ toolOut' = PyStrList(args_2(toolIn))
            /\ pc' = "Conf_finish"
       ELSE /\ pc' = "Horizon"
            /\ UNCHANGED <<now, toolOut>>
    /\ UNCHANGED <<state, table, polled, result_df, warned, cleaned, toolIn, cmds, asked, nat, last>>

----------------------------------------------------------------------------
(* ConfigurationAgent, after the tool call *)

\* config_value_updated.strip("[]").replace("'", "").split(", ")
ParseConfig(content) ==
    Split(RemoveChar(StripChars(content, {"[", "]"}), "'"), <<",", " ">>)

\* (mutant) the count advanced by two
NextCountTwice(st) == st["count"] + 2

\* count = state['count']; count += 1
NextCount(st) == st["count"] + 1

\* (mutant) the prompt one reconfiguration early
PromptsEarly(count) == count + 1 >= interrupt_after

\* what the log holds of a call that has ended: the entity, the arguments of
\* its two runs and the configuration returned, or nothing if it failed
LastCall(in, c, out) ==
    IF Len(c) = 2 /\ out \notin {<<>>, MSG_FAILED, MSG_TIMEOUT}
    THEN [UE |-> in.UE, args |-> <<c[1].args, c[2].args>>, out |-> out]
    ELSE <<>>

\* (mutant) the prompt only in the cycle that reaches the threshold
PromptsOnce(count) == count = interrupt_after

\* if count >= config_file['interrupt_after']: consent = input(...)
Prompts(count) == count >= interrupt_after

\* (mutant) the operator's answer dropped
ConfigurationReturnYes(st, content, consent) ==
    [messages |-> <<"Configuration">>,
     agent_id |-> "Configuration Agent",
     start |-> Get(st, "start", 0),
     config_value |-> ParseConfig(content),
     count |-> NextCount(st),
     consent |-> "yes"]

ConfigurationReturn(st, content, consent) ==
    [messages |-> <<"Configuration">>,
     agent_id |-> "Configuration Agent",
     start |-> Get(st, "start", 0),
     config_value |-> ParseConfig(content),
     count |-> NextCount(st),
     consent |-> consent]

ConfFinish ==
    /\ pc = "Conf_finish"
    /\ IF Prompts(NextCount(state))
       THEN \E answer \in OperatorAnswers :
               /\ asked' = <<answer, NextCount(state)>>
               /\ state' = Merge(ConfigurationReturn(state, toolOut, answer), state)
       ELSE /\ asked' = asked
            /\ state' = Merge(ConfigurationReturn(state, toolOut, "yes"), state)
    /\ pc' = "Route"
    /\ cleaned' = <<>>
    /\ toolIn' = <<>>
    /\ cmds' = <<>>
    /\ toolOut' = <<>>
    /\ last' = LastCall(toolIn, cmds, toolOut)
    /\ UNCHANGED <<table, now, polled, result_df, warned, nat>>

----------------------------------------------------------------------------
(* The orchestrator: after ConfigurationAgent, back to MonitoringAgent or END. *)

Continue(consent) == consent = "yes"
Halt(consent) == consent = "no"

Route ==
    /\ pc = "Route"
    /\ \/ /\ ~Halt(state["consent"])
          /\ pc' = "Monitoring"
       \/ /\ ~Continue(state["consent"])
          /\ pc' = "HALTED"
    /\ UNCHANGED <<state, table, now, polled, result_df, warned, confVars>>

----------------------------------------------------------------------------
(* guardrails.InputValidator.validate_reconfigure_input *)

LowerCase == <<"a","b","c","d","e","f","g","h","i","j","k","l","m",
               "n","o","p","q","r","s","t","u","v","w","x","y","z">>
UpperCase == <<"A","B","C","D","E","F","G","H","I","J","K","L","M",
               "N","O","P","Q","R","S","T","U","V","W","X","Y","Z">>

UpperChar(c) ==
    IF \E i \in 1..Len(LowerCase) : LowerCase[i] = c
    THEN UpperCase[CHOOSE i \in 1..Len(LowerCase) : LowerCase[i] = c]
    ELSE c

\* str.upper()
Upper(s) == [i \in 1..Len(s) |-> UpperChar(s[i])]

\* (mutant) the checks stopped at the first issue
validate_reconfigure_inputFirst(ue, value_1_old, value_2_old) ==
    IF Upper(ue) \notin {S_UE1, S_UE2} THEN <<"ue">>
    ELSE IF ~(0 <= value_1_old /\ value_1_old <= 100) THEN <<"value_1_old">>
    ELSE IF ~(0 <= value_2_old /\ value_2_old <= 100) THEN <<"value_2_old">>
    ELSE IF value_1_old + value_2_old # 100 THEN <<"sum">>
    ELSE <<>>

\* the list of issues, in the order the checks append them
validate_reconfigure_input(ue, value_1_old, value_2_old) ==
    (IF Upper(ue) \notin {S_UE1, S_UE2} THEN <<"ue">> ELSE <<>>)
    \o (IF ~(0 <= value_1_old /\ value_1_old <= 100) THEN <<"value_1_old">> ELSE <<>>)
    \o (IF ~(0 <= value_2_old /\ value_2_old <= 100) THEN <<"value_2_old">> ELSE <<>>)
    \o (IF value_1_old + value_2_old # 100 THEN <<"sum">> ELSE <<>>)

----------------------------------------------------------------------------
(* register._reconfigure_network *)

(* The requests the NAT agent may send *)
NatUEs == {S_UE1, S_UE2, S_UE3, <<"u", "e", "1">>, <<"U", "e", "2">>}
NatValues == {-1, 20, 80, 101}
(* subprocess.run without a timeout returns or raises CalledProcessError,   *)
(* however long the script takes: "late" is a run of more than 30 seconds  *)
(* that exits 0 in the end                                                 *)
NatRunOutcomes == {"ok", "nonzero", "late"}

\* (mutant) the entity id compared as it is written
nat_args_2AsWritten(in) == IF in.UE = S_UE1 THEN <<S_80, S_20>> ELSE <<S_20, S_80>>

\* if input.ue.upper() == "UE1": args_2 = ["80", "20"] else: args_2 = ["20", "80"]
nat_args_2(in) == IF Upper(in.UE) = S_UE1 THEN <<S_80, S_20>> ELSE <<S_20, S_80>>

graphVars == <<state, table, polled, result_df, warned, cleaned, asked>>

\* (mutant) the call without the input validation
NatRequestUnchecked(ue, v1, v2) ==
    /\ pc = "Nat_idle"
    /\ toolIn' = [UE |-> ue, value_1_old |-> v1, value_2_old |-> v2]
    /\ cmds' = <<>>
    /\ toolOut' = <<>>
    /\ nat' = [nat EXCEPT !.raised = "none", !.issues = <<>>,
                          !.checked = NoneValue, !.validated = "none"]
    /\ pc' = "Nat_reset"
    /\ last' = LastCall(toolIn, cmds, toolOut)
    /\ UNCHANGED <<now, graphVars>>

\* the call, up to the first run of the script: the input validation raises
\* ValueError when the validator exists and reports an issue
NatRequest(ue, v1, v2) ==
    /\ pc = "Nat_idle"
    /\ toolIn' = [UE |-> ue, value_1_old |-> v1, value_2_old |-> v2]
    /\ cmds' = <<>>
    /\ toolOut' = <<>>
    /\ IF nat.guardrails /\ validate_reconfigure_input(ue, v1, v2) # <<>>
       THEN /\ nat' = [nat EXCEPT !.raised = "guardrail",
                                  !.issues = validate_reconfigure_input(ue, v1, v2),
                                  !.checked = NoneValue, !.validated = "none"]
            /\ pc' = "Nat_idle"
       ELSE /\ nat' = [nat EXCEPT !.raised = "none", !.issues = <<>>,
                                  !.checked = NoneValue, !.validated = "none"]
            /\ pc' = "Nat_reset"
    /\ last' = LastCall(toolIn, cmds, toolOut)
    /\ UNCHANGED <<now, graphVars>>

\* the except clause: raise ValueError("Reconfiguration unsuccessful: ...")
NatRun(args, next) ==
    \E outcome \in NatRunOutcomes :
        /\ RunScript(args, outcome)
        /\ IF outcome \in {"ok", "late"}
           THEN pc' = next /\ UNCHANGED nat
           ELSE pc' = "Nat_idle" /\ nat' = [nat EXCEPT !.raised = "failed"]

NatReset ==
    /\ pc = "Nat_reset"
    /\ NatRun(args_1, "Nat_target")
    /\ UNCHANGED <<now, toolIn, toolOut, last, graphVars>>

NatTarget ==
    /\ pc = "Nat_target"
    /\ NatRun(nat_args_2(toolIn), "Nat_settle")
    /\ UNCHANGED <<now, toolIn, toolOut, last, graphVars>>

\* await asyncio.sleep(10); output = str(args_2); then the output validation,
\* if the validator exists: its ValueError is caught and logged, any other
\* exception leaves the function; return output
NatSettle ==
    /\ pc = "Nat_settle"
    /\ IF now + SETTLE_DELAY <= MaxTime
       THEN /\ now' = now + SETTLE_DELAY
            /\ pc' = "Nat_idle"
            /\ \E output \in {PyStrList(nat_args_2(toolIn))} :
                 \E v \in {IF nat.guardrails
                           THEN validate_output(nat.mode, nat.rules, Str(output))
                           ELSE "none"} :
                    /\ nat' = [nat EXCEPT
                                 !.checked = IF nat.guardrails THEN Str(output) ELSE @,
                                 !.validated = v,
                                 !.raised = IF v = "Error" THEN "error" ELSE @]
                    /\ toolOut' = IF v = "Error" THEN toolOut ELSE output
       ELSE /\ pc' = "Horizon"
            /\ UNCHANGED <<now, toolOut, nat>>
    /\ UNCHANGED <<toolIn, cmds, last, graphVars>>

----------------------------------------------------------------------------
(* OutputValidator.validate_output called on its own *)

ValidateOutput(output) ==
    /\ pc = "Validate"
    /\ nat' = [nat EXCEPT !.checked = output,
                          !.validated = validate_output(nat.mode, nat.rules, output)]
    /\ UNCHANGED <<pc, now, toolIn, cmds, toolOut, last, graphVars>>

ValidatorInit ==
    /\ pc = "Validate"
    /\ state = <<>>
    /\ table = EmptyBag
    /\ now = 0
    /\ asked = <<>>
    /\ last = <<>>
    /\ NoLocals
    /\ \E m \in ValidationModes, rs \in RuleLists :
          nat = [NatOff EXCEPT !.deployed = TRUE, !.guardrails = TRUE,
                               !.mode = m, !.rules = rs]

ValidatorNext == \E output \in Outputs : ValidateOutput(output)

ValidatorSpec == ValidatorInit /\ [][ValidatorNext]_vars

----------------------------------------------------------------------------
(* register._get_packetloss_logs and InputValidator.validate_packetloss_input *)

\* if limit > 10000
MAX_LIMIT == 10000
\* await asyncio.sleep(5)
LOG_DELAY == 5

(* The limits a request may carry; 20 is the default of GetPacketlossLogsInput *)
Limits == {-1, 0, 1, 2, 20, MAX_LIMIT, MAX_LIMIT + 1}

\* "WARNING: No packet loss data available at this time. Please try again later."
\* (its first word)
MSG_NO_DATA == <<"W", "A", "R", "N", "I", "N", "G">>

\* (mutant) the limit 0 accepted
validate_packetloss_inputZero(limit) ==
    (IF limit < 0 THEN <<"positive">> ELSE <<>>)
    \o (IF limit > MAX_LIMIT THEN <<"large">> ELSE <<>>)

\* the list of issues, in the order the checks append them
validate_packetloss_input(limit) ==
    (IF limit <= 0 THEN <<"positive">> ELSE <<>>)
    \o (IF limit > MAX_LIMIT THEN <<"large">> ELSE <<>>)

\* the rows of the table in an order of descending timestamp
ByTimestampDesc(tbl) ==
    { f \in Orderings(BagToSet(tbl)) :
        \A i, j \in 1..Len(f) : i < j => f[i].ts >= f[j].ts }

\* SELECT lost_packets, loss_percentage, UE ... ORDER BY timestamp DESC LIMIT n,
\* for n >= 1 (the tables of this part hold no row twice)
Latest(tbl, n) ==
    { SubSeq(f, 1, IF n < Len(f) THEN n ELSE Len(f)) : f \in ByTimestampDesc(tbl) }

\* the columns selected (the rendering by to_string is not modelled)
LogRecords(rows) == [i \in 1..Len(rows) |-> [UE |-> rows[i].ue, loss_percentage |-> rows[i].loss]]

\* the call, up to the sleep: the input validation raises ValueError when the
\* validator exists and reports an issue
LogsRequest(limit) ==
    /\ pc = "Logs_idle"
    /\ toolIn' = [limit |-> limit]
    /\ result_df' = <<>>
    /\ toolOut' = <<>>
    /\ IF nat.guardrails /\ validate_packetloss_input(limit) # <<>>
       THEN /\ nat' = [nat EXCEPT !.raised = "guardrail",
                                  !.issues = validate_packetloss_input(limit)]
            /\ pc' = "Logs_idle"
       ELSE /\ nat' = [nat EXCEPT !.raised = "none", !.issues = <<>>]
            /\ pc' = "Logs_query"
    /\ UNCHANGED <<state, table, now, polled, warned, cleaned, cmds, asked, last>>

\* await asyncio.sleep(5), then the query: it raises (any exception becomes
\* ValueError), or returns records, or returns none.  What the database does
\* with a LIMIT below 1 is not in the sources: it raises or returns no record.
LogsQuery ==
    /\ pc = "Logs_query"
    /\ IF now + LOG_DELAY <= MaxTime
       THEN /\ now' = now + LOG_DELAY
            /\ pc' = "Logs_idle"
            /\ \/ /\ nat' = [nat EXCEPT !.raised = "failed"]
                  /\ UNCHANGED <<result_df, toolOut>>
               \/ /\ \E rows \in (IF toolIn.limit >= 1 THEN Latest(table, toolIn.limit)
                                    ELSE {<<>>}) :
                        /\ result_df' = rows
                        /\ toolOut' = IF rows = <<>> THEN MSG_NO_DATA ELSE LogRecords(rows)
                  /\ UNCHANGED nat
       ELSE /\ pc' = "Horizon"
            /\ UNCHANGED <<now, result_df, toolOut, nat>>
    /\ UNCHANGED <<state, table, polled, warned, cleaned, toolIn, cmds, asked, last>>

(* The tables the log retrieval runs on *)
LogTables ==
    {EmptyBag,
     SetToBag({[ue |-> S_UE1, ts |-> 0, loss |-> 20]}),
     SetToBag({[ue |-> S_UE1, ts |-> 0, loss |-> 20], [ue |-> S_UE2, ts |-> 0, loss |-> 30]})}

LogsInit ==
    /\ pc = "Logs_idle"
    /\ state = <<>>
    /\ table \in LogTables
    /\ now = 0
    /\ asked = <<>>
    /\ last = <<>>
    /\ NoLocals
    /\ \/ nat = [NatOff EXCEPT !.deployed = TRUE]
       \/ \E m \in ValidationModes :
             nat = [NatOff EXCEPT !.deployed = TRUE, !.guardrails = TRUE, !.mode = m]

LogsNext ==
    \/ \E limit \in Limits : LogsRequest(limit)
    \/ LogsQuery

LogsSpec == LogsInit /\ [][LogsNext]_vars

----------------------------------------------------------------------------
(* The alternating traffic generators: the main loop of generate_traffic.py *)
(* and main() of generate_traffic_fixed.py from its loop on, each with its  *)
(* two runner threads.  state holds the locals of the main thread; a thread *)
(* object is the bandwidth it was created with and how far it has got.  Of  *)
(* a runner, only the life of its thread is followed: it runs, and ends     *)
(* either after proc.wait() or in its except clause.  alive counts, for     *)
(* each UE, the runner threads that have been started and have not ended.   *)
(* The run is not interrupted from the keyboard.                            *)

(* Iterations of the unbounded loop of generate_traffic.py that are followed *)
MaxIterations == 4
\* test_iterations = 25
test_iterations == 25

GenPositions ==
    {"Gen_loop", "Gen_start1", "Gen_start2", "Gen_join1", "Gen_join2", "Gen_alternate"}
FixedPositions ==
    {"Fixed_loop", "Fixed_start1", "Fixed_start2", "Fixed_join1", "Fixed_join2",
     "Fixed_alternate"}

\* no thread object yet
NoThread == [bandwidth |-> "", status |-> "none"]
\* threading.Thread(target=..., args=(..., bandwidth, ...))
Thread(bandwidth) == [bandwidth |-> bandwidth, status |-> "created"]

\* the UE a thread runs iperf3 for: 1 for UE1, 2 for UE2 (UE3 in the fixed script)
UEOf(thread) == IF thread \in {"ue1_thread", "t1"} THEN 1 ELSE 2

\* how a runner thread ends: normally, or in "except Exception" (logged)
Ended == {"finished", "failed"}

\* iteration += 1; ue1_thread = Thread(...); ue2_thread = Thread(...)
GenCreate ==
    /\ pc = "Gen_loop"
    /\ IF state.iteration < MaxIterations
       THEN /\ state' = [state EXCEPT !.iteration = @ + 1,
                                      !.ue1_thread = Thread(state.bandwidth_ue1),
                                      !.ue2_thread = Thread(state.bandwidth_ue2)]
            /\ pc' = "Gen_start1"
       ELSE /\ pc' = "Horizon"
            /\ UNCHANGED state
    /\ UNCHANGED <<table, now, polled, result_df, warned, confVars>>

\* ue1_thread.start()
GenStart1 ==
    /\ pc = "Gen_start1"
    /\ state' = [state EXCEPT !.ue1_thread.status = "running", !.alive[1] = @ + 1]
    /\ pc' = "Gen_start2"
    /\ UNCHANGED <<table, now, polled, result_df, warned, confVars>>

\* ue2_thread.start()
GenStart2 ==
    /\ pc = "Gen_start2"
    /\ state' = [state EXCEPT !.ue2_thread.status = "running", !.alive[2] = @ + 1]
    /\ pc' = "Gen_join1"
    /\ UNCHANGED <<table, now, polled, result_df, warned, confVars>>

\* ue1_thread.join()
GenJoin1 ==
    /\ pc = "Gen_join1"
    /\ state.ue1_thread.status \in Ended
    /\ pc' = "Gen_join2"
    /\ UNCHANGED <<state, table, now, polled, result_df, warned, confVars>>

\* (mutant) the second thread not waited for
GenJoin2NoWait ==
    /\ pc = "Gen_join2"
    /\ pc' = "Gen_alternate"
    /\ UNCHANGED <<state, table, now, polled, result_df, warned, confVars>>

\* ue2_thread.join()
GenJoin2 ==
    /\ pc = "Gen_join2"
    /\ state.ue2_thread.status \in Ended
    /\ pc' = "Gen_alternate"
    /\ UNCHANGED <<state, table, now, polled, result_df, warned, confVars>>

\* (mutant) the bandwidths exchanged only after an iteration without failure
GenAlternateOnSuccess ==
    /\ pc = "Gen_alternate"
    /\ state' = IF "failed" \in {state.ue1_thread.status, state.ue2_thread.status}
                THEN state
                ELSE [state EXCEPT !.bandwidth_ue1 = state.bandwidth_ue2,
                                   !.bandwidth_ue2 = state.bandwidth_ue1]
    /\ pc' = "Gen_loop"
    /\ UNCHANGED <<table, now, polled, result_df, warned, confVars>>

\* if bandwidth_ue1 == "30M": ... else: ...; time.sleep(2)
GenAlternate ==
    /\ pc = "Gen_alternate"
    /\ state' = IF state.bandwidth_ue1 = "30M"
                THEN [state EXCEPT !.bandwidth_ue1 = "120M", !.bandwidth_ue2 = "30M"]
                ELSE [state EXCEPT !.bandwidth_ue1 = "30M", !.bandwidth_ue2 = "120M"]
    /\ pc' = "Gen_loop"
    /\ UNCHANGED <<table, now, polled, result_df, warned, confVars>>

\* the thread of generate_traffic.py that runs iperf_runner_single
iperf_runner_single(thread) ==
    /\ pc \in GenPositions
    /\ state[thread].status = "running"
    /\ \/ state' = [state EXCEPT ![thread].status = "finished", !.alive[UEOf(thread)] = @ - 1]
       \/ state' = [state EXCEPT ![thread].status = "failed", !.alive[UEOf(thread)] = @ - 1]
    /\ UNCHANGED <<pc, table, now, polled, result_df, warned, confVars>>

\* while current_iteration < test_iterations: current_iteration += 1;
\* t1 = Thread(...); t2 = Thread(...); after the loop main returns
FixedCreate ==
    /\ pc = "Fixed_loop"
    /\ IF state.current_iteration < test_iterations
       THEN /\ state' = [state EXCEPT !.current_iteration = @ + 1,
                                      !.t1 = Thread(state.bandwidth_ue1),
                                      !.t2 = Thread(state.bandwidth_ue3)]
            /\ pc' = "Fixed_start1"
       ELSE /\ pc' = "Fixed_done"
            /\ UNCHANGED state
    /\ UNCHANGED <<table, now, polled, result_df, warned, confVars>>

\* t1.start()
FixedStart1 ==
    /\ pc = "Fixed_start1"
    /\ state' = [state EXCEPT !.t1.status = "running", !.alive[1] = @ + 1]
    /\ pc' = "Fixed_start2"
    /\ UNCHANGED <<table, now, polled, result_df, warned, confVars>>

\* t2.start()
FixedStart2 ==
    /\ pc = "Fixed_start2"
    /\ state' = [state EXCEPT !.t2.status = "running", !.alive[2] = @ + 1]
    /\ pc' = "Fixed_join1"
    /\ UNCHANGED <<table, now, polled, result_df, warned, confVars>>

\* t1.join()
FixedJoin1 ==
    /\ pc = "Fixed_join1"
    /\ state.t1.status \in Ended
    /\ pc' = "Fixed_join2"
    /\ UNCHANGED <<state, table, now, polled, result_df, warned, confVars>>

\* t2.join()
FixedJoin2 ==
    /\ pc = "Fixed_join2"
    /\ state.t2.status \in Ended
    /\ pc' = "Fixed_alternate"
    /\ UNCHANGED <<state, table, now, polled, result_df, warned, confVars>>

\* "120M" if bandwidth == "30M" else "30M"
Toggle(bandwidth) == IF bandwidth = "30M" THEN "120M" ELSE "30M"

FixedAlternate ==
    /\ pc = "Fixed_alternate"
    /\ state' = [state EXCEPT !.bandwidth_ue1 = Toggle(state.bandwidth_ue1),
                              !.bandwidth_ue3 = Toggle(state.bandwidth_ue3)]
    /\ pc' = "Fixed_loop"
    /\ UNCHANGED <<table, now, polled, result_df, warned, confVars>>

\* the thread of generate_traffic_fixed.py that runs iperf_runner
iperf_runner(thread) ==
    /\ pc \in FixedPositions
    /\ state[thread].status = "running"
    /\ \/ state' = [state EXCEPT ![thread].status = "finished", !.alive[UEOf(thread)] = @ - 1]
       \/ state' = [state EXCEPT ![thread].status = "failed", !.alive[UEOf(thread)] = @ - 1]
    /\ UNCHANGED <<pc, table, now, polled, result_df, warned, confVars>>

TrafficInit ==
    /\ table = EmptyBag
    /\ now = 0
    /\ asked = <<>>
    /\ last = <<>>
    /\ nat = NatOff
    /\ NoLocals
    /\ \/ /\ pc = "Gen_loop"
          /\ state = [iteration |-> 0, bandwidth_ue1 |-> "30M", bandwidth_ue2 |-> "120M",
                      ue1_thread |-> NoThread, ue2_thread |-> NoThread, alive |-> <<0, 0>>]
       \/ /\ pc = "Fixed_loop"
          /\ state = [current_iteration |-> 0, bandwidth_ue1 |-> "30M",
                      bandwidth_ue3 |-> "120M", t1 |-> NoThread, t2 |-> NoThread,
                      alive |-> <<0, 0>>]

TrafficNext ==
    \/ GenCreate
    \/ GenStart1
    \/ GenStart2
    \/ GenJoin1
    \/ GenJoin2
    \/ GenAlternate
    \/ \E thread \in {"ue1_thread", "ue2_thread"} : iperf_runner_single(thread)
    \/ FixedCreate
    \/ FixedStart1
    \/ FixedStart2
    \/ FixedJoin1
    \/ FixedJoin2
    \/ FixedAlternate
    \/ \E thread \in {"t1", "t2"} : iperf_runner(thread)

TrafficSpec == TrafficInit /\ [][TrafficNext]_vars

\* The main thread and the runner threads are scheduled, and a runner ends:
\* iperf3 runs for the -t seconds it is given.
TrafficFairSpec == TrafficSpec /\ WF_vars(TrafficNext)

----------------------------------------------------------------------------

Next ==
    \/ \E u \in UEs, l \in Losses : InsertSample(u, l)
    \/ PollNoTable
    \/ PollError
    \/ PollEmpty
    \/ PollNormal
    \/ PollDetect
    \/ ConfConfirm
    \/ ToolReset
    \/ ToolTarget
    \/ ToolSettle
    \/ ConfFinish
    \/ Route
    \/ \E ue \in NatUEs, v1 \in NatValues, v2 \in NatValues : NatRequest(ue, v1, v2)
    \/ NatReset
    \/ NatTarget
    \/ NatSettle

Spec == Init /\ [][Next]_vars

\* The steps of the agent process itself.  The process keeps running: a poll
\* returns or raises, subprocess.run under tools.py ends within its timeout,
\* the sleeps end, and the operator answers input().
Progress ==
    \/ PollNoTable
    \/ PollError
    \/ PollEmpty
    \/ PollNormal
    \/ PollDetect
    \/ ConfConfirm
    \/ ToolReset
    \/ ToolTarget
    \/ ToolSettle
    \/ ConfFinish
    \/ Route

FairSpec == Spec /\ WF_vars(Progress)

\* Only the orchestrator is assumed to go on: after ConfigurationAgent has
\* returned, the routing step is taken.
RoutingFairSpec == Spec /\ WF_vars(Route)

----------------------------------------------------------------------------
(* The operator interrupts the agent process (SIGINT).  Python raises      *)
(* KeyboardInterrupt in the main thread wherever it is: neither the        *)
(* "except Exception" of MonitoringAgent nor the except clauses of         *)
(* reconfigure_network catch it, ConfigurationAgent has no try statement,  *)
(* and subprocess.run kills the script it is waiting for before it passes  *)
(* the exception on.  The frames are unwound and their locals are gone;    *)
(* the runs of the script made so far remain.                              *)

Interruptible ==
    {"Monitoring", "Conf_confirm", "Tool_reset", "Tool_target", "Tool_settle", "Conf_finish"}

\* the script run the interrupt may hit, if any
RunningArgs ==
    IF pc = "Tool_reset" THEN {args_1}
    ELSE IF pc = "Tool_target" THEN {args_2(toolIn)}
    ELSE {}

Interrupt ==
    /\ pc \in Interruptible
    /\ pc' = "interrupted"
    /\ \/ cmds' = cmds
       \/ \E args \in RunningArgs :
             cmds' = Append(cmds, [args |-> args, outcome |-> "killed"])
    /\ polled' = "none"
    /\ result_df' = <<>>
    /\ warned' = <<>>
    /\ cleaned' = <<>>
    /\ toolIn' = <<>>
    /\ toolOut' = <<>>
    /\ UNCHANGED <<state, table, now, asked, nat, last>>

\* the loop of agents.py with the operator's interrupt
InterruptInit == Init /\ ~nat.deployed

InterruptNext ==
    \/ \E u \in UEs, l \in Losses : InsertSample(u, l)
    \/ PollNoTable
    \/ PollError
    \/ PollEmpty
    \/ PollNormal
    \/ PollDetect
    \/ ConfConfirm
    \/ ToolReset
    \/ ToolTarget
    \/ ToolSettle
    \/ ConfFinish
    \/ Route
    \/ Interrupt

InterruptSpec == InterruptInit /\ [][InterruptNext]_vars

----------------------------------------------------------------------------
(* Vocabulary of the properties *)

\* int(s) for a string of decimal digits
DigitValue(c) ==
    CASE c = "0" -> 0 [] c = "1" -> 1 [] c = "2" -> 2 [] c = "3" -> 3 [] c = "4" -> 4
      [] c = "5" -> 5 [] c = "6" -> 6 [] c = "7" -> 7 [] c = "8" -> 8 [] c = "9" -> 9

IsNumeral(s) == s # <<>> /\ \A i \in 1..Len(s) : s[i] \in Digits

RECURSIVE ToInt(_)
ToInt(s) ==
    IF s = <<>> THEN 0 ELSE 10 * ToInt(SubSeq(s, 1, Len(s) - 1)) + DigitValue(s[Len(s)])

\* a configuration pair: two non-negative integers that sum to 100
IsSplit(cv) ==
    /\ Len(cv) = 2
    /\ IsNumeral(cv[1])
    /\ IsNumeral(cv[2])
    /\ ToInt(cv[1]) + ToInt(cv[2]) = 100

\* the request in flight ended with a script run that exited non-zero or timed out
CommandFailed == cmds # <<>> /\ cmds[Len(cmds)].outcome # "ok"

\* the step in which ConfigurationAgent returns
ConfReturns == pc = "Conf_finish" /\ pc' = "Route"

----------------------------------------------------------------------------
(* C1: on a reconfiguration cycle in which a command invocation (reset or  *)
(* target) exits non-zero or times out, the configuration pair held in the *)
(* state after the cycle equals the pair held before the cycle.            *)

C1_ConfigPreservedOnFailure ==
    [][(ConfReturns /\ CommandFailed)
        => state'["config_value"] = state["config_value"]]_vars

(* C2: on such a cycle the reconfiguration count is not incremented.       *)

C2_CountKeptOnFailure ==
    [][(ConfReturns /\ CommandFailed) => state'["count"] = state["count"]]_vars

(* C3: in every reachable state the configuration pair consists of exactly *)
(* two non-negative integers that sum to 100.                              *)

C3_ConfigIsSplit ==
    IsSplit(Get(state, "config_value", <<S_50, S_50>>))

----------------------------------------------------------------------------
(* C4: for every reconfiguration request the script is invoked first with  *)
(* the reset split (20,20) and then with the target split; the target run  *)
(* happens only after the reset run exited 0, and the new configuration is *)
(* returned only if both runs exited 0.                                    *)

\* the script run exited 0 (in time, or late where no timeout is set)
ExitedZero(c) == c.outcome \in {"ok", "late"}

AllOk == Len(cmds) = 2 /\ ExitedZero(cmds[1]) /\ ExitedZero(cmds[2])

\* the target split of the implementation that is deployed
TargetOf(in) == IF nat.deployed THEN nat_args_2(in) ELSE args_2(in)

C4_ResetThenTarget ==
    /\ Len(cmds) <= 2
    /\ Len(cmds) >= 1 => cmds[1].args = <<S_20, S_20>>
    /\ Len(cmds) = 2 => ExitedZero(cmds[1]) /\ cmds[2].args = TargetOf(toolIn)
    /\ pc \in {"Tool_target", "Nat_target"} => Len(cmds) = 1
    /\ pc \in {"Tool_settle", "Nat_settle"} => AllOk
    /\ pc = "Conf_finish" =>
        /\ cmds # <<>>
        /\ toolOut \notin {MSG_FAILED, MSG_TIMEOUT} <=> AllOk
        /\ AllOk => toolOut = PyStrList(cmds[2].args)
    /\ pc = "Nat_idle" =>
        /\ toolOut # <<>> <=> (AllOk /\ nat.raised = "none")
        /\ toolOut # <<>> => toolOut = PyStrList(cmds[2].args)
        /\ nat.raised = "failed" <=> (cmds # <<>> /\ ~AllOk)
        /\ nat.raised = "guardrail" => cmds = <<>>

C4_Witness ==
    /\ pc = "Conf_finish"
    /\ AllOk
    /\ cmds[2].args # cmds[1].args
    /\ toolOut = PyStrList(cmds[2].args)

\* the same in the NAT deployment, and a reset that failed there
C4_NatApplied == pc = "Nat_idle" /\ AllOk /\ toolOut = PyStrList(cmds[2].args)

C4_NatResetFailed == pc = "Nat_idle" /\ Len(cmds) = 1 /\ nat.raised = "failed"

----------------------------------------------------------------------------
(* The samples of the trailing window, computed from the table directly *)

Recent(tbl, t) == { r \in BagToSet(tbl) : t - r.ts < WINDOW_SECONDS }

Over(tbl, t) == { r \in Recent(tbl, t) : r.loss > PACKET_LOSS_THRESHOLD }

OverUEs(tbl, t) == { r.ue : r \in Over(tbl, t) }

\* the samples of one entity in the window, as a bag
RecentOf(tbl, u, t) == [r \in { x \in Recent(tbl, t) : x.ue = u } |-> tbl[r]]

TrueCount(tbl, u, t) == BagCardinality(RecentOf(tbl, u, t))

TrueMax(tbl, u, t) ==
    CHOOSE m \in Losses :
        /\ \E r \in DOMAIN RecentOf(tbl, u, t) : r.loss = m
        /\ \A r \in DOMAIN RecentOf(tbl, u, t) : r.loss <= m

\* the sum of the losses, loss value by loss value
RECURSIVE SumByLoss(_, _)
SumByLoss(b, ls) ==
    IF ls = {} THEN 0
    ELSE LET l == CHOOSE x \in ls : TRUE
         IN l * BagCardinality([r \in { x \in DOMAIN b : x.loss = l } |-> b[r]])
            + SumByLoss(b, ls \ {l})

TrueSum(tbl, u, t) == SumByLoss(RecentOf(tbl, u, t), Losses)

\* the step in which MonitoringAgent returns a snapshot
DetectStep == pc = "Monitoring" /\ pc' = "Conf_confirm"

----------------------------------------------------------------------------
(* C5: MonitoringAgent never hands off on a poll in which every entity's   *)
(* maximum loss over the trailing 30 seconds is at most 1.5 (a maximum     *)
(* equal to 1.5 is no anomaly); on such a poll it waits the poll interval  *)
(* and polls again.                                                        *)

C5_NoHandoffAtOrUnderThreshold ==
    [][(pc = "Monitoring" /\ Over(table, now) = {}) =>
        /\ pc' \in {"Monitoring", "Horizon"}
        /\ state' = state
        /\ table' = table =>
            \/ pc' = "Monitoring" /\ now' = now + CHECK_INTERVAL
            \/ pc' = "Horizon" /\ now + CHECK_INTERVAL > MaxTime]_vars

C5_Witness ==
    /\ pc = "Monitoring"
    /\ polled = "normal"
    /\ \E r \in BagToSet(table) :
        r.loss = PACKET_LOSS_THRESHOLD /\ r.ts = now - CHECK_INTERVAL
    /\ Over(table, now - CHECK_INTERVAL) = {}

----------------------------------------------------------------------------
(* C6: when several entities exceed the threshold in one detection pass,   *)
(* the entity placed in the snapshot has a max loss greater than or equal  *)
(* to the max loss of every other entity of that pass.                     *)

C6_SelectsGreatestMaxLoss ==
    [][DetectStep =>
        LET snap == state'["files"].metrics
        IN /\ \A r \in Recent(table, now) : r.loss <= snap.max_loss
           /\ \E r \in Over(table, now) : r.ue = snap.ue /\ r.loss = snap.max_loss]_vars

C6_Witness ==
    /\ pc = "Conf_confirm"
    /\ Len(HighLoss(result_df)) = 2
    /\ result_df[1].max_loss < result_df[2].max_loss
    /\ state["files"].metrics.ue = result_df[2].ue
    /\ state["files"].metrics.max_loss = result_df[2].max_loss

----------------------------------------------------------------------------
(* C7: when exactly one entity exceeds the threshold, the snapshot names   *)
(* that entity, and its avg_loss, max_loss and samples equal the mean, the *)
(* maximum and the count of that entity's samples in the trailing window.  *)

C7_SingleAnomalySnapshot ==
    [][(DetectStep /\ Cardinality(OverUEs(table, now)) = 1) =>
        LET snap == state'["files"].metrics
        IN /\ snap.ue \in OverUEs(table, now)
           /\ snap.samples = TrueCount(table, snap.ue, now)
           /\ snap.max_loss = TrueMax(table, snap.ue, now)
           /\ snap.avg_loss.den > 0
           /\ snap.avg_loss.num * TrueCount(table, snap.ue, now)
                = TrueSum(table, snap.ue, now) * snap.avg_loss.den]_vars

C7_Witness ==
    /\ pc = "Conf_confirm"
    /\ Len(result_df) = 2
    /\ Len(HighLoss(result_df)) = 1
    /\ Cardinality(OverUEs(table, now)) = 1
    /\ state["files"].metrics.ue \in OverUEs(table, now)
    /\ state["files"].metrics = HighLoss(result_df)[1]

----------------------------------------------------------------------------
(* C8: for every answer of the oracle to the confirmation request, the     *)
(* entity id that ConfigurationAgent supplies to the reconfiguration step  *)
(* is the entity id detected by MonitoringAgent.                           *)

InFlight == pc \in {"Tool_reset", "Tool_target", "Tool_settle", "Conf_finish"}

C8_DetectedEntitySupplied ==
    InFlight => toolIn.UE = state["files"].metrics.ue

----------------------------------------------------------------------------
(* C9: the target configuration is a function of the entity id only: UE1   *)
(* receives (80,20) and any other entity receives (20,80), whatever the    *)
(* old configuration is.                                                   *)

STR_80_20 == <<"[", "'", "8", "0", "'", ",", " ", "'", "2", "0", "'", "]">>
STR_20_80 == <<"[", "'", "2", "0", "'", ",", " ", "'", "8", "0", "'", "]">>

\* a tool call that has returned the configuration it applied
Applied ==
    \/ pc = "Conf_finish" /\ AllOk
    \/ pc = "Nat_idle" /\ toolOut # <<>>

\* register.py reads the entity id in upper case, tools.py as it is
EntityOf(in) == IF nat.deployed THEN Upper(in.UE) ELSE in.UE

C9_TargetFromEntity ==
    Applied =>
        IF EntityOf(toolIn) = S_UE1
        THEN /\ cmds[2].args = <<S_80, S_20>>
             /\ toolOut = STR_80_20
             /\ ParseConfig(toolOut) = <<S_80, S_20>>
        ELSE /\ cmds[2].args = <<S_20, S_80>>
             /\ toolOut = STR_20_80
             /\ ParseConfig(toolOut) = <<S_20, S_80>>

C9_Witness ==
    /\ pc = "Conf_finish"
    /\ AllOk
    /\ toolIn = [UE |-> S_UE1, value_1_old |-> S_50, value_2_old |-> S_50]
    /\ ParseConfig(toolOut) = <<S_80, S_20>>

\* the same in the NAT deployment, for the other entity and an old split
\* other than (50,50)
C9_NatWitness ==
    /\ pc = "Nat_idle"
    /\ toolIn = [UE |-> S_UE2, value_1_old |-> 80, value_2_old |-> 20]
    /\ toolOut = STR_20_80

----------------------------------------------------------------------------
(* C10: the loop is HALTED, or the consent flag differs from "yes", only   *)
(* in a state where the count has reached interrupt_after and the operator *)
(* has declined at the consent prompt; while the count is below            *)
(* interrupt_after the consent flag is "yes" and the loop is not halted.   *)

C10_HaltOnlyOnDecline ==
    (pc = "HALTED" \/ Get(state, "consent", "yes") # "yes") =>
        /\ state["count"] >= interrupt_after
        /\ asked # <<>>
        /\ asked[1] # "yes"
        /\ state["consent"] = asked[1]

C10_Witness ==
    /\ pc = "HALTED"
    /\ state["consent"] = "no"
    /\ state["count"] = interrupt_after

----------------------------------------------------------------------------
(* C11: when the count has reached interrupt_after and the operator        *)
(* answers "no" at the consent prompt, the consent flag becomes "no"; from *)
(* then on no telemetry query is issued and no script run happens, and the *)
(* loop reaches HALTED.                                                    *)

\* the step in which ConfigurationAgent returns with the answer "no"
Declines == ConfReturns /\ Prompts(state'["count"]) /\ asked' # <<>> /\ asked'[1] = "no"

Declined == Get(state, "consent", "yes") = "no"

C11_HaltsOnDecline ==
    /\ [][Declines => state'["consent"] = "no"]_vars
    /\ [][Declined => /\ pc' \in {"Route", "HALTED"}
                      /\ UNCHANGED <<state, now, polled, result_df, cmds>>]_vars
    /\ Declined ~> (pc = "HALTED")

C11_Witness ==
    /\ pc = "HALTED"
    /\ asked # <<>>
    /\ asked[1] = "no"
    /\ state["consent"] = "no"
    /\ state["count"] > interrupt_after

----------------------------------------------------------------------------
(* C12: every reconfiguration cycle that starts eventually completes and   *)
(* returns control to MonitoringAgent (or to HALTED on a decline), whether *)
(* the script run succeeded, exited non-zero or timed out.  (A cycle that  *)
(* is still running at the time MaxTime is not followed further.)          *)

C12_CycleCompletes ==
    (pc = "Conf_confirm") ~> (pc \in {"Monitoring", "HALTED", "Horizon"})

----------------------------------------------------------------------------
(* C13: the loop is single-flight: while a reconfiguration request is in   *)
(* flight (from the call of the tool to the return of ConfigurationAgent,  *)
(* both script runs and the settle delay included) MonitoringAgent issues  *)
(* no query, and the request is not replaced by another one.               *)

\* a request of the graph's tool exists
Requested == ~nat.deployed /\ (toolIn # <<>> \/ cmds # <<>>)

C13_SingleFlight ==
    /\ [](Requested => pc \in {"Tool_reset", "Tool_target", "Tool_settle",
                                "Conf_finish", "Horizon"})
    /\ [](InFlight => polled = "none" /\ result_df = <<>>)
    /\ [][InFlight => /\ polled' = polled
                      /\ result_df' = result_df
                      /\ toolIn' \in {toolIn, <<>>}
                      /\ Len(cmds') <= 2]_vars

\* both runs done, the settle delay pending, and meanwhile a sample over
\* the threshold has arrived for the other entity
C13_Witness ==
    /\ pc = "Tool_settle"
    /\ AllOk
    /\ \E r \in BagToSet(table) :
          /\ r.ue # state["files"].metrics.ue
          /\ r.loss > PACKET_LOSS_THRESHOLD
          /\ r.ts = now

----------------------------------------------------------------------------
(* C14: a poll whose query raises, returns no rows, or cannot be issued    *)
(* because the table name is not set never ends MonitoringAgent: it is     *)
(* followed by a wait of the poll interval and a new poll, however many    *)
(* such polls came before; and a poll after such polls whose query shows   *)
(* an entity over the threshold hands off.                                 *)

FailedPolls == {"no_table", "error", "no_data"}

\* a poll of MonitoringAgent that ends as the variable polled' tells
PollStep == pc = "Monitoring" /\ (polled' # polled \/ now' # now \/ pc' # pc)

C14_FailedPollRetries ==
    /\ [][(PollStep /\ polled' \in FailedPolls) =>
            /\ pc' \in {"Monitoring", "Horizon"}
            /\ pc' = "Monitoring" <=> now + CHECK_INTERVAL <= MaxTime
            /\ pc' = "Monitoring" => now' = now + CHECK_INTERVAL
            /\ state' = state]_vars
    /\ [][(PollStep /\ polled \in FailedPolls /\ polled' \notin FailedPolls
            /\ Over(table, now) # {}) => pc' = "Conf_confirm"]_vars
    /\ [](pc = "Monitoring" => ENABLED PollNoTable /\ ENABLED PollError)

\* a hand-off at the third poll, after two polls that found no table, no
\* rows or an error
C14_Witness ==
    /\ pc = "Conf_confirm"
    /\ state["count"] = 0
    /\ now = 2 * CHECK_INTERVAL
    /\ BagCardinality(table) = 1
    /\ \A r \in BagToSet(table) : r.ts = now

----------------------------------------------------------------------------
(* C15: validate_reconfigure_input reports no issue (valid) exactly for    *)
(* the inputs whose entity is UE1 or UE2 in any letter case, whose values  *)
(* each lie in [0,100] and whose values sum to 100; otherwise it reports   *)
(* invalid with exactly one issue for each violated constraint, all of     *)
(* them together.                                                          *)

SameLetter(a, b) ==
    a = b \/ \E j \in 1..Len(LowerCase) : {a, b} = {LowerCase[j], UpperCase[j]}

KnownEntity(ue) ==
    \E k \in {S_UE1, S_UE2} :
        Len(ue) = Len(k) /\ \A i \in 1..Len(k) : SameLetter(ue[i], k[i])

InRange(v) == v >= 0 /\ v <= 100

\* the constraints an input violates
Violated(in) ==
    (IF KnownEntity(in.UE) THEN {} ELSE {"ue"})
    \cup (IF InRange(in.value_1_old) THEN {} ELSE {"value_1_old"})
    \cup (IF InRange(in.value_2_old) THEN {} ELSE {"value_2_old"})
    \cup (IF in.value_1_old + in.value_2_old = 100 THEN {} ELSE {"sum"})

\* a request of the NAT deployment that went through the input validator
Validated == nat.deployed /\ nat.guardrails /\ toolIn # <<>>

C15_InputValidation ==
    Validated =>
        /\ nat.raised = "guardrail" <=> nat.issues # <<>>
        /\ { nat.issues[i] : i \in 1..Len(nat.issues) } = Violated(toolIn)
        /\ Len(nat.issues) = Cardinality(Violated(toolIn))

\* an input that violates the four constraints at once, and a valid one in
\* lower case
C15_Witness ==
    /\ Validated
    /\ nat.issues = <<"ue", "value_1_old", "value_2_old", "sum">>

C15_ValidLowerCase ==
    /\ Validated
    /\ toolIn.UE = <<"u", "e", "1">>
    /\ nat.issues = <<>>
    /\ pc = "Nat_reset"

----------------------------------------------------------------------------
(* C16: with guardrails in strict mode, a reconfiguration request whose    *)
(* input violates a guardrail fails with a validation error before any     *)
(* script run: neither the reset run nor the target run happens for it.    *)

\* the request at hand went through the input validator and violates a constraint
InvalidRequest(mode) ==
    Validated /\ nat.mode = mode /\ Violated(toolIn) # {}

C16_StrictRejectsBeforeRun ==
    InvalidRequest("strict") =>
        /\ nat.raised = "guardrail"
        /\ pc = "Nat_idle"
        /\ cmds = <<>>
        /\ toolOut = <<>>

\* rejected in strict mode after an earlier request had run the script in full
C16_Witness ==
    /\ InvalidRequest("strict")
    /\ nat.raised = "guardrail"
    /\ toolIn.UE = S_UE3
    /\ now = SETTLE_DELAY

----------------------------------------------------------------------------
(* C17: with guardrails in warning mode, a reconfiguration request whose   *)
(* input violates a guardrail is logged only: the request is not aborted   *)
(* and the script still runs.                                              *)

C17_WarningDoesNotAbort ==
    InvalidRequest("warning") => nat.raised # "guardrail"

----------------------------------------------------------------------------
(* What a rule asks of an output, read from the rule itself *)

\* the value the rule is about: the named field of the output, or the output
ValueFor(output, rule) ==
    IF rule.field = "" THEN output
    ELSE IF output.type = "dict" /\ rule.field \in DOMAIN output.value
         THEN output.value[rule.field]
         ELSE NoneValue

Satisfies(output, rule) ==
    CASE rule.rule_type = "pattern" ->
            output.type = "str" /\ StartsWith(output.value, rule.pattern)
      [] rule.rule_type = "enum" ->
            \E a \in rule.allowed_values : a = ValueFor(output, rule)
      [] rule.rule_type = "range" ->
            /\ ValueFor(output, rule).type = "num"
            /\ rule.min_value # NoneValue =>
                  ValueFor(output, rule).value >= rule.min_value.value
            /\ rule.max_value # NoneValue =>
                  ValueFor(output, rule).value <= rule.max_value.value
      [] OTHER -> TRUE

SatisfiesAll(output, rules) ==
    \A i \in 1..Len(rules) : Satisfies(output, rules[i])

\* validate_output has been called in the given mode
Called(mode) == pc = "Validate" /\ nat.mode = mode /\ nat.validated # "none"

----------------------------------------------------------------------------
(* C18: in strict mode validate_output raises for every output and rule    *)
(* list in which at least one rule is violated, and returns True when no   *)
(* rule is violated.                                                       *)

C18_StrictRaises ==
    Called("strict") =>
        IF SatisfiesAll(nat.checked, nat.rules)
        THEN nat.validated = "True"
        ELSE nat.validated \in {"ValueError", "Error"}

\* the first rule holds, the second is violated
C18_Witness ==
    /\ Called("strict")
    /\ nat.rules = <<R_KNOWN, R_TARGET>>
    /\ nat.checked = Str(PyStrList(<<S_20, S_80>>))
    /\ nat.validated = "ValueError"

----------------------------------------------------------------------------
(* C19: in warning mode validate_output never raises, for any output and   *)
(* any rule list (rules whose evaluation errors included); it returns      *)
(* False exactly when at least one rule is not satisfied by the output,    *)
(* and True otherwise.                                                     *)

C19_WarningReturnsBoolean ==
    Called("warning") =>
        /\ nat.validated \in {"True", "False"}
        /\ nat.validated = "False" <=> ~SatisfiesAll(nat.checked, nat.rules)

----------------------------------------------------------------------------
(* C20: with guardrails in strict mode, a violated output rule on the      *)
(* result of a reconfiguration makes _reconfigure_network fail instead of  *)
(* returning the new configuration.                                        *)

----------------------------------------------------------------------------
(* C21: every script run is bounded by the 30-second timeout and counts as *)
(* successful only if it exits 0 within it: a run that exceeds the bound   *)
(* is the last run of its request, and the request fails.                  *)

\* the script run took more than the 30 seconds
Overran(c) == c.outcome \in {"timeout", "late"}

C21_RunsBoundedByTimeout ==
    \A i \in 1..Len(cmds) :
        Overran(cmds[i]) =>
            /\ i = Len(cmds)
            /\ pc \in {"Conf_finish", "Nat_idle"}
            /\ pc = "Conf_finish" => toolOut = MSG_TIMEOUT
            /\ pc = "Nat_idle" => nat.raised = "failed" /\ toolOut = <<>>

\* under tools.py the run that times out ends the request
C21_GraphTimeout ==
    /\ pc = "Conf_finish"
    /\ Len(cmds) = 2
    /\ cmds[2].outcome = "timeout"
    /\ toolOut = MSG_TIMEOUT

----------------------------------------------------------------------------
(* C22: after both script runs of a request have succeeded, the tool waits *)
(* the settle delay of 10 seconds before it returns the new configuration, *)
(* and no telemetry query is issued between the second run and the end of  *)
(* the delay.                                                              *)

Settling == pc \in {"Tool_settle", "Nat_settle"}

C22_SettleBeforeReturn ==
    /\ [](Settling => AllOk /\ toolOut = <<>>)
    /\ [][Settling =>
            /\ polled' = polled
            /\ result_df' = result_df
            /\ state' = state
            /\ pc' \in {pc, "Conf_finish", "Nat_idle", "Horizon"}
            /\ toolOut' # toolOut => now' = now + SETTLE_DELAY
            /\ pc' \in {"Conf_finish", "Nat_idle"} => now' = now + SETTLE_DELAY
            /\ pc' = "Horizon" => now + SETTLE_DELAY > MaxTime]_vars

\* the new configuration returned 10 seconds after a sample over the
\* threshold arrived for the other entity, which no poll has looked at
C22_Witness ==
    /\ pc = "Conf_finish"
    /\ AllOk
    /\ toolOut = PyStrList(cmds[2].args)
    /\ polled = "none"
    /\ \E r \in BagToSet(table) :
          /\ r.ue # state["files"].metrics.ue
          /\ r.loss > PACKET_LOSS_THRESHOLD
          /\ r.ts = now - SETTLE_DELAY
          /\ r.ts > 0

\* the same wait in the NAT deployment
C22_NatWitness ==
    /\ pc = "Nat_idle"
    /\ AllOk
    /\ toolOut = PyStrList(cmds[2].args)
    /\ now = SETTLE_DELAY

----------------------------------------------------------------------------
(* C23: reconfiguration is idempotent in its target: a call that follows a *)
(* call for the same entity runs the script with the same arguments, in    *)
(* the same order, and returns the same configuration, whatever the old    *)
(* values handed to the two calls are.                                     *)

\* the call at hand and the call before it have both applied a
\* configuration, for the same entity
AppliedTwice == Applied /\ last # <<>> /\ EntityOf(last) = EntityOf(toolIn)

C23_IdempotentTarget ==
    AppliedTwice =>
        /\ <<cmds[1].args, cmds[2].args>> = last.args
        /\ toolOut = last.out

\* the second cycle of the loop for UE1: the first call had the old values
\* (50,50), the second has (80,20)
C23_Witness ==
    /\ pc = "Conf_finish"
    /\ AppliedTwice
    /\ state["count"] = 1
    /\ toolIn = [UE |-> S_UE1, value_1_old |-> S_80, value_2_old |-> S_20]
    /\ toolOut = STR_80_20

\* two calls in a row in the NAT deployment with different old values
C23_NatWitness ==
    /\ pc = "Nat_idle"
    /\ AppliedTwice
    /\ toolIn = [UE |-> S_UE2, value_1_old |-> 20, value_2_old |-> 80]
    /\ now = 2 * SETTLE_DELAY

----------------------------------------------------------------------------
(* C24: when two or more entities over the threshold share the greatest    *)
(* max loss, the snapshot names the one of them that comes first in the    *)
(* order of the query result.                                              *)

\* the first of the rows with the greatest max_loss
FirstOfGreatest(high) ==
    high[CHOOSE i \in 1..Len(high) :
            /\ \A j \in 1..Len(high) : high[j].max_loss <= high[i].max_loss
            /\ \A j \in 1..(i - 1) : high[j].max_loss < high[i].max_loss]

C24_TieBrokenByQueryOrder ==
    pc = "Conf_confirm" =>
        state["files"].metrics = FirstOfGreatest(HighLoss(result_df))

----------------------------------------------------------------------------
(* C25: the reconfiguration count never decreases along the steps of       *)
(* MonitoringAgent and ConfigurationAgent, and one reconfiguration cycle   *)
(* changes it by at most one.                                              *)

CountOf(st) == Get(st, "count", 0)

C25_CountMonotone ==
    /\ [][/\ CountOf(state') >= CountOf(state)
           /\ CountOf(state') <= CountOf(state) + 1]_vars
    /\ [][CountOf(state') # CountOf(state) => ConfReturns]_vars

\* MonitoringAgent has handed over the count of two completed cycles
C25_Witness ==
    /\ pc = "Conf_confirm"
    /\ state["count"] = 2
    /\ state["consent"] = "yes"

----------------------------------------------------------------------------
(* C26: ConfigurationAgent starts only right after MonitoringAgent has     *)
(* returned a snapshot: whenever it starts, the snapshot in the state      *)
(* names an entity whose max loss exceeded the threshold in the detection  *)
(* pass that has just completed.                                           *)

Snapshot == state["files"].metrics

C26_StartsOnFreshSnapshot ==
    /\ [](pc = "Conf_confirm" =>
            /\ polled = "high_loss"
            /\ Snapshot.max_loss > PACKET_LOSS_THRESHOLD
            /\ \E i \in 1..Len(result_df) : result_df[i] = Snapshot
            /\ \E r \in Over(table, now) :
                  r.ue = Snapshot.ue /\ r.loss = Snapshot.max_loss)
    /\ [][(pc' = "Conf_confirm" /\ pc # "Conf_confirm") =>
            /\ pc = "Monitoring"
            /\ Over(table, now) # {}
            /\ table' = table
            /\ now' = now]_vars

\* the second cycle starts on a snapshot that names another entity than the
\* first cycle reconfigured
C26_Witness ==
    /\ pc = "Conf_confirm"
    /\ state["count"] = 1
    /\ last # <<>>
    /\ last.UE # Snapshot.ue
    /\ Snapshot.max_loss > PACKET_LOSS_THRESHOLD

----------------------------------------------------------------------------
(* C27: MonitoringAgent changes neither the configuration pair nor the     *)
(* count nor the consent flag: after any number of polls (no table, no     *)
(* rows, errors, normal readings) it returns the values it received, which *)
(* before the first reconfiguration are (50,50), 0 and "yes".              *)

\* the three values as MonitoringAgent reads them from a state
Carried(st) ==
    <<Get(st, "config_value", <<S_50, S_50>>), Get(st, "count", 0),
      Get(st, "consent", "yes")>>

\* ConfigurationAgent has not returned yet
BeforeFirstCycle == "agent_id" \notin DOMAIN state

C27_MonitoringKeepsState ==
    /\ [][pc = "Monitoring" => Carried(state') = Carried(state)]_vars
    /\ [][(pc = "Monitoring" /\ pc' # "Conf_confirm") => state' = state]_vars
    /\ [][DetectStep =>
            <<state'["config_value"], state'["count"], state'["consent"]>>
                = Carried(state)]_vars
    /\ [](BeforeFirstCycle => Carried(state) = <<<<S_50, S_50>>, 0, "yes">>)

\* the second hand-off, one poll after the first cycle has ended: the
\* values ConfigurationAgent left are handed over
C27_Witness ==
    /\ pc = "Conf_confirm"
    /\ now = SETTLE_DELAY + CHECK_INTERVAL
    /\ state["config_value"] = <<S_20, S_80>>
    /\ state["count"] = 1
    /\ state["consent"] = "yes"

\* the first hand-off, after two polls without a detection
C27_FirstHandOff ==
    /\ pc = "Conf_confirm"
    /\ BeforeFirstCycle
    /\ now = 2 * CHECK_INTERVAL
    /\ Carried(state) = <<<<S_50, S_50>>, 0, "yes">>

----------------------------------------------------------------------------
(* C28: when several entities exceed the threshold in one pass, exactly    *)
(* one of them, the top one, is handed to ConfigurationAgent; the others   *)
(* are stored nowhere in the state, and a request is only ever made for    *)
(* the entity of the snapshot of the pass just completed.                  *)

\* the keys of the state that a detection pass may write
DetectionKeys == {"files", "messages"}

DefaultOf(k) ==
    CASE k = "config_value" -> <<S_50, S_50>>
      [] k = "consent" -> "yes"
      [] OTHER -> 0

C28_OnlyTopHandedOver ==
    /\ [][DetectStep =>
            /\ DOMAIN state'["files"] = {"metrics"}
            /\ \E i \in 1..Len(HighLoss(result_df')) :
                  /\ state'["files"].metrics = HighLoss(result_df')[i]
                  /\ \A j \in 1..Len(HighLoss(result_df')) :
                        HighLoss(result_df')[j].max_loss
                            <= HighLoss(result_df')[i].max_loss
            /\ state'["messages"] = Get(state, "messages", <<>>) \o <<"Monitoring">>
            /\ \A k \in DOMAIN state' \ DetectionKeys :
                  state'[k] = Get(state, k, DefaultOf(k))]_vars
    /\ [](InFlight => Strip(toolIn.UE) = Snapshot.ue)
    /\ [][InFlight => state'["files"] = state["files"]]_vars

\* two entities over the threshold in the pass of the second cycle: the
\* warning names the one, the snapshot the other, which has the greater loss
C28_Witness ==
    /\ pc = "Conf_confirm"
    /\ state["count"] = 1
    /\ Len(HighLoss(result_df)) = 2
    /\ warned # <<>>
    /\ warned # Snapshot.ue
    /\ \E i \in 1..2 : HighLoss(result_df)[i].max_loss < Snapshot.max_loss

----------------------------------------------------------------------------
(* C29: every snapshot MonitoringAgent produces is consumed exactly once:  *)
(* ConfigurationAgent starts only on a snapshot that has just been         *)
(* produced, never a second time on it and never on one left in the state  *)
(* by an earlier cycle, and its run makes exactly one reconfiguration      *)
(* request for the entity of the snapshot.                                 *)

\* ConfigurationAgent begins, and leaves its first step
ConfStarts == pc # "Conf_confirm" /\ pc' = "Conf_confirm"
ConfConsumes == pc = "Conf_confirm" /\ pc' # "Conf_confirm"

C29_SnapshotConsumedOnce ==
    /\ [][ConfStarts => DetectStep /\ polled' = "high_loss"]_vars
    /\ [][ConfConsumes =>
            /\ polled = "high_loss"
            /\ polled' = "none"
            /\ pc' = "Tool_reset"
            /\ Strip(toolIn'.UE) = Snapshot.ue
            /\ cmds' = <<>>]_vars
    /\ [][InFlight => toolIn' \in {toolIn, <<>>}]_vars

----------------------------------------------------------------------------
(* C30: an interrupt of the operator takes effect only at the top of an    *)
(* iteration of the loop: one that arrives while the script is running, or *)
(* between the reset run and the target run, does not abandon the request, *)
(* which runs to its end before the loop stops.                            *)

C30_InterruptAtIterationTop ==
    /\ [][(pc' = "interrupted" /\ pc # "interrupted") => pc = "Monitoring"]_vars
    /\ [](pc = "interrupted" => cmds = <<>>)

----------------------------------------------------------------------------
(* C31: when the invocation of the oracle in Step 1 fails (the loop of     *)
(* agents.py has no guardrails, so none in strict mode), the entity id of  *)
(* the detector is used and the reconfiguration proceeds: whatever the     *)
(* invocation does, ConfigurationAgent goes on to the reconfiguration      *)
(* request for the detected entity, and the failure stops nothing.         *)

\* the configuration pair in the state can be read by prompt_1
PairReadable == Len(state["config_value"]) >= 2

C31_OracleFailureAbsorbed ==
    [][(ConfConsumes /\ PairReadable) =>
          /\ pc' = "Tool_reset"
          /\ Strip(toolIn'.UE) = Snapshot.ue]_vars

----------------------------------------------------------------------------
(* C32: validate_packetloss_input accepts a limit exactly when it lies in  *)
(* 1..10000, and with guardrails enabled a log-retrieval request with a    *)
(* rejected limit fails before any query is issued.                        *)

\* a log-retrieval request that went through the input validator
LogsValidated == pc \in {"Logs_idle", "Logs_query"} /\ nat.guardrails /\ toolIn # <<>>

C32_ZeroRejected == LogsValidated /\ toolIn.limit = 0 /\ nat.raised = "guardrail"

C32_OneServed == LogsValidated /\ toolIn.limit = 1 /\ Len(result_df) = 1 /\ Len(toolOut) = 1

C32_CapServed == LogsValidated /\ toolIn.limit = 10000 /\ Len(result_df) = 2

----------------------------------------------------------------------------
(* C33: after any sequence of reconfiguration attempts the configuration   *)
(* pair recorded in the state equals the split most recently applied       *)
(* successfully by the script; in particular, when the reset to (20,20)    *)
(* succeeds and the target run fails or times out, the recorded pair is    *)
(* what the network holds.                                                 *)

\* the runs of the request in flight that exited 0 in time
AppliedRuns == { i \in 1..Len(cmds) : cmds[i].outcome = "ok" }

\* the split the script applied last
NetworkHolds == cmds[CHOOSE i \in AppliedRuns : \A j \in AppliedRuns : j <= i].args

C33_RecordedIsApplied ==
    [][(ConfReturns /\ AppliedRuns # {}) => state'["config_value"] = NetworkHolds]_vars

----------------------------------------------------------------------------
(* C34: when more than one entity exceeds the threshold, the entity that   *)
(* MonitoringAgent names in its warning as the one processed first is the  *)
(* entity of the snapshot it hands over, for every order of the rows the   *)
(* query returns.                                                          *)

C34_WarnedIsHandedOver ==
    (pc = "Conf_confirm" /\ Len(HighLoss(result_df)) > 1) => warned = Snapshot.ue

----------------------------------------------------------------------------
(* C35: the operator is prompted at the end of a reconfiguration cycle     *)
(* exactly when the count after the cycle's increment is at least          *)
(* interrupt_after; the count is never reset, so once the threshold has    *)
(* been reached the prompt is issued at the end of every later cycle; and  *)
(* the consent recorded is the answer to the prompt of that cycle, or      *)
(* "yes" when the cycle issued none.                                       *)

\* the returning step has issued a prompt
PromptedNow == asked' # <<>> /\ asked'[2] = state'["count"]

C35_PromptFromThresholdOn ==
    [][ConfReturns =>
        /\ state'["count"] = CountOf(state) + 1
        /\ PromptedNow <=> state'["count"] >= interrupt_after
        /\ asked # <<>> => PromptedNow
        /\ ~PromptedNow => asked' = asked
        /\ state'["consent"] = IF PromptedNow THEN asked'[1] ELSE "yes"]_vars

\* a cycle after the one that reached the threshold has prompted again, and
\* the consent is the later answer
C35_Witness ==
    /\ pc = "Route"
    /\ state["count"] = interrupt_after + 1
    /\ asked = <<"", interrupt_after + 1>>
    /\ state["consent"] = ""

----------------------------------------------------------------------------
(* C36: the two implementations of the reconfiguration tool agree: for     *)
(* every entity id, in any letter case, and every pair of old values,      *)
(* tools.reconfigure_network and register._reconfigure_network run the     *)
(* script with the same argument sequences and return, on success, the     *)
(* same target configuration.                                              *)

\* a reconfiguration request is in flight, under either implementation
InCall == pc \in {"Tool_reset", "Tool_target", "Tool_settle",
                  "Nat_reset", "Nat_target", "Nat_settle"}

C36_ToolsAgree ==
    InCall =>
        /\ <<args_1, args_2(toolIn)>> = <<args_1, nat_args_2(toolIn)>>
        /\ PyStrList(args_2(toolIn)) = PyStrList(nat_args_2(toolIn))

----------------------------------------------------------------------------
(* C37: with guardrails enabled, in any validation mode,                   *)
(* register._reconfigure_network runs the script only for an entity that   *)
(* is UE1 or UE2 up to letter case, with the target (80,20) exactly for    *)
(* UE1 and (20,80) exactly for UE2; a request for any other identifier,    *)
(* UE3 included, never reaches the script.                                 *)

\* the id is the entity k up to letter case
IsEntity(ue, k) == Len(ue) = Len(k) /\ \A i \in 1..Len(k) : SameLetter(ue[i], k[i])

C37_Rejected ==
    /\ Validated
    /\ nat.mode = "warning"
    /\ toolIn.UE = S_UE3
    /\ nat.raised = "guardrail"
    /\ last # <<>>

----------------------------------------------------------------------------
(* The traffic generators seen from outside *)

Bandwidths == {"30M", "120M"}

\* the top of the loop body: the start of an iteration
AtLoopHead == pc \in {"Gen_loop", "Fixed_loop"}

\* the step that begins an iteration
IterationBegins == AtLoopHead /\ pc' \in {"Gen_start1", "Fixed_start1"}

\* the bandwidths requested for the two UEs
RequestedBandwidths ==
    IF pc \in GenPositions
    THEN <<state.bandwidth_ue1, state.bandwidth_ue2>>
    ELSE <<state.bandwidth_ue1, state.bandwidth_ue3>>

\* the runner threads of the two UEs
Runners ==
    IF pc \in GenPositions
    THEN <<state.ue1_thread, state.ue2_thread>>
    ELSE <<state.t1, state.t2>>

\* iterations begun so far
Iterations == IF pc \in GenPositions THEN state.iteration ELSE state.current_iteration

InGenerator == pc \in GenPositions \cup FixedPositions

----------------------------------------------------------------------------
(* C38: in the alternating traffic generators, at the start of every       *)
(* iteration the bandwidths requested for the two UEs are both in          *)
(* {30M, 120M} and differ from each other, and each UE's bandwidth in      *)
(* iteration n+1 is the other value than in iteration n, whether or not    *)
(* the runners of iteration n failed.                                      *)

C38_BandwidthsAlternate ==
    /\ [](AtLoopHead =>
            /\ RequestedBandwidths[1] \in Bandwidths
            /\ RequestedBandwidths[2] \in Bandwidths
            /\ RequestedBandwidths[1] # RequestedBandwidths[2])
    /\ [][IterationBegins =>
            \A i \in 1..2 :
                /\ Runners'[i].bandwidth = RequestedBandwidths[i]
                /\ Runners[i].status # "none" =>
                      /\ Runners'[i].bandwidth \in Bandwidths
                      /\ Runners'[i].bandwidth # Runners[i].bandwidth]_vars

\* the third iteration about to start after one in which the runner of UE1
\* failed: UE1 is back at 30M
C38_Witness ==
    /\ pc = "Gen_loop"
    /\ state.iteration = 2
    /\ state.ue1_thread = [bandwidth |-> "120M", status |-> "failed"]
    /\ state.bandwidth_ue1 = "30M"
    /\ state.bandwidth_ue2 = "120M"

C38_FixedWitness ==
    /\ pc = "Fixed_loop"
    /\ state.current_iteration = 3
    /\ state.t2 = [bandwidth |-> "120M", status |-> "failed"]
    /\ state.bandwidth_ue3 = "30M"

----------------------------------------------------------------------------
(* C39: the two runner threads of iteration n+1 are started only after     *)
(* both runner threads of iteration n have finished, so at most one runner *)
(* per UE and at most two in total are active at any time; a runner that   *)
(* fails (its error is absorbed and logged) does not prevent the next      *)
(* iteration from starting; generate_traffic_fixed.main stops after        *)
(* exactly 25 iterations.                                                  *)

\* a runner of the iteration under way has failed
RunnerFailed == InGenerator /\ \E i \in 1..2 : Runners[i].status = "failed"

C39_Waiting ==
    /\ pc = "Gen_join2"
    /\ state.iteration = 2
    /\ state.ue1_thread.status = "failed"
    /\ state.ue2_thread.status = "running"
    /\ state.alive = <<0, 1>>

====
